---- MODULE Spec2Model ----
(***************************************************************************)
(* AegisSign (DocSecure): password-wrapped Ed25519 identities, PDF signing *)
(* with the signature carried in the Producer/Creator metadata fields, and *)
(* the two verification handlers (registry-backed and cryptographic).      *)
(*                                                                         *)
(* Bytes are modelled symbolically.  A metadata string is a sequence of    *)
(* atoms; a PDF is a record of its Info fields, its content and the        *)
(* serialisation form of its bytes.  SHA-256, PBKDF2, AES-GCM and Ed25519  *)
(* are modelled as ideal primitives (injective, unforgeable).              *)
(*                                                                         *)
(* Spec      : signup, the signing handler step by step, both verification *)
(*             handlers, and a client that holds, changes and uploads one  *)
(*             file.  calls[c].registry0 and calls[c].steps are history:   *)
(*             the registry when the call started, the steps it has taken. *)
(* SpecCodec : injectSignature followed by extractAndStripSignature on     *)
(*             canonical documents, signatures and keys drawn in Init.     *)
(* SpecConcurrent : two requests (sign or verify, registry-backed) in      *)
(*             flight at once, interleaved step by step, with both         *)
(*             identities already stored; the only fault is a failed       *)
(*             registry insert.                                            *)
(* SpecWrap, SpecVerify, SpecNormalize : key wrapping, verifySignature and *)
(*             normalizePdf on inputs drawn in Init.                       *)
(***************************************************************************)
EXTENDS Integers, Sequences, FiniteSets, TLC

\* ------------------------------------------------------------------ bounds
\* most signatures the signing handler produces in one run of the model
MaxSignatures == 2

\* ------------------------------------------------------- identities, inputs
Users == {"A", "B"}
Passwords == {"pw-one", "pw-two"}
NoPassword == ""
PrivateKeys == {1, 2}
\* the randomBytes(32) draw of each signup: distinct identities draw distinct keys
RandomKey(u) == IF u = "A" THEN 1 ELSE 2
Salts == {1}
Ivs == {1}
FileName == "doc.pdf"

\* ------------------------------------------------------------ string atoms
Chr(c) == [c |-> c]
Sep == Chr("||")
Colon == Chr(":")
SIGNATURE_KEY == Chr("AegisSign_Signature")
OWNER_KEY == Chr("AegisSign_Owner")
SignedDocumentTitle == <<Chr("Signed Document")>>
Comma == Chr(",")
Space == Chr(" ")

Min(S) == CHOOSE x \in S : \A y \in S : x <= y

\* one atom standing for the hex text of a signature, of a key, or junk hex
\* (each an even number of hex digits), or for a single hex digit
IsHexAtom(a) == DOMAIN a \in {{"sig"}, {"key"}, {"junk"}, {"digit"}}
HexDigit(d) == [digit |-> d]

\* an Info-dictionary entry: missing, or present with a string value
Absent == [has |-> FALSE]
Str(s) == [has |-> TRUE, s |-> s]

\* getX() || dflt : undefined and the empty string are both falsy
OrElse(field, dflt) == IF field.has /\ field.s # <<>> THEN field.s ELSE dflt

\* ----------------------------------------------------------------- pdf-lib
\* bytes that PDFDocument.load rejects
Malformed == [form |-> "garbage"]
IsPdf(bytes) == bytes.form # "garbage"

\* PDFDocument.load(bytes, {updateMetadata: false}): the parsed document
Load(bytes) ==
    [title |-> bytes.title, subject |-> bytes.subject,
     keywords |-> bytes.keywords, producer |-> bytes.producer,
     creator |-> bytes.creator, modDate |-> bytes.modDate,
     content |-> bytes.content]

\* pdfDoc.save(): the library's own serialisation of the parsed document
Save(doc) ==
    [form |-> "lib", title |-> doc.title, subject |-> doc.subject,
     keywords |-> doc.keywords, producer |-> doc.producer,
     creator |-> doc.creator, modDate |-> doc.modDate,
     content |-> doc.content]

\* ------------------------------------------------------------ cryptoUtils
Sha256(data) == [sha |-> data]

HashPdfBuffer(buffer) == Sha256(buffer)

\* mutant of DeriveKeyFromPassword: the password does not enter the key
DeriveKeyWithoutPassword(password, salt) == [pw |-> NoPassword, salt |-> salt]

DeriveKeyFromPassword(password, salt) == [pw |-> password, salt |-> salt]

GetPublicKey(privateKey) == 100 + privateKey

\* Buffer.from(bytes).toString('hex') and Buffer.from(hex, 'hex') of a key
KeyToHex(k) == <<[key |-> k]>>
IsKeyHex(h) == Len(h) = 1 /\ DOMAIN h[1] = {"key"}
HexToKey(h) == h[1].key

EncryptPrivateKey(privateKey, dek, iv) ==
    [encryptedPrivateKey |-> [pt |-> HexToKey(privateKey), dek |-> dek, iv |-> iv],
     iv |-> iv]

\* mutant of DecryptThrows: the authentication tag is not checked
DecryptThrowsNoTag(encryptedPrivateKey, iv, dek) == FALSE

\* AES-GCM: the tag verifies only under the key and nonce used to encrypt
DecryptThrows(encryptedPrivateKey, iv, dek) ==
    ~(encryptedPrivateKey.dek = dek /\ encryptedPrivateKey.iv = iv)

DecryptPrivateKey(encryptedPrivateKey, iv, dek) == encryptedPrivateKey.pt

\* what decryptPrivateKey leaves behind: `decrypted`, the Buffer that
\* Buffer.concat built and new Uint8Array(decrypted) copied from
DecryptPrivateKeyBuffers(encryptedPrivateKey, iv, dek) ==
    [decrypted |-> [kind |-> "bytes", holds |-> encryptedPrivateKey.pt]]

SignHash(hash, privateKey) == <<[sig |-> [h |-> hash, k |-> privateKey]]>>

IsSigHex(h) == Len(h) = 1 /\ DOMAIN h[1] = {"sig"}

\* Buffer.from(str, 'hex'): decoding stops at the first character that is
\* not a hex digit, and a single digit left at the end is dropped
FromHex(str) ==
    LET stops == {i \in 1..Len(str) : ~IsHexAtom(str[i])}
        hex == IF stops = {} THEN str ELSE SubSeq(str, 1, Min(stops) - 1)
        digits == {i \in 1..Len(hex) : DOMAIN hex[i] = {"digit"}}
        whole == IF digits = {} THEN hex ELSE SubSeq(hex, 1, Min(digits) - 1)
        rest == SubSeq(hex, Len(whole) + 1, Len(hex))
    IN  IF \A i \in 1..Len(rest) : DOMAIN rest[i] = {"digit"}
        THEN whole \o [i \in 1..(Len(rest) \div 2) |->
                          [byte |-> <<rest[2 * i - 1].digit, rest[2 * i].digit>>]]
        ELSE whole \o <<[misaligned |-> rest]>>

\* ed.verify: throws on a signature that is not 64 bytes or a key that is not
\* a 32-byte point, else tells whether the signature is the key's on the hash
EdVerify(signatureBytes, hash, publicKeyBytes) ==
    IF /\ Len(signatureBytes) = 1 /\ DOMAIN signatureBytes[1] = {"sig"}
       /\ Len(publicKeyBytes) = 1 /\ DOMAIN publicKeyBytes[1] = {"key"}
    THEN [throws |-> FALSE,
          value |-> /\ signatureBytes[1].sig.h = hash
                    /\ GetPublicKey(signatureBytes[1].sig.k)
                           = publicKeyBytes[1].key]
    ELSE [throws |-> TRUE, value |-> FALSE]

\* the try block and the catch block of verifySignature
VerifySignatureCompletion(signature, hash, publicKey) ==
    LET r == EdVerify(FromHex(signature), hash, FromHex(publicKey))
    IN  IF r.throws
        THEN [thrown |-> FALSE, value |-> FALSE]
        ELSE [thrown |-> FALSE, value |-> r.value]

VerifySignature(signature, hash, publicKey) ==
    VerifySignatureCompletion(signature, hash, publicKey).value

\* mutant of SecureWipe: the buffer is left as it is
SecureWipeNoFill(data) == data

\* data.fill(0)
SecureWipe(data) == 0

\* --------------------------------------------------------------- pdfUtils
\* position i starts  ||<name>:<hex>
TokenAt(str, name, i) ==
    /\ i + 3 <= Len(str)
    /\ str[i] = Sep
    /\ str[i + 1] = name
    /\ str[i + 2] = Colon
    /\ IsHexAtom(str[i + 3])

\* last position of the greedy [a-fA-F0-9]+ run that starts at j
HexRunEnd(str, j) ==
    CHOOSE e \in j..Len(str) :
        /\ \A m \in j..e : IsHexAtom(str[m])
        /\ e = Len(str) \/ ~IsHexAtom(str[e + 1])

\* str.match(new RegExp(`\\|\\|${name}:([a-fA-F0-9]+)`)): the first match
RegexMatch(str, name) ==
    LET hits == {i \in 1..Len(str) : TokenAt(str, name, i)}
    IN  IF hits = {}
        THEN [found |-> FALSE]
        ELSE LET i == Min(hits)
                 e == HexRunEnd(str, i + 3)
             IN  [found |-> TRUE, from |-> i, to |-> e,
                  group |-> SubSeq(str, i + 3, e)]

\* str.replace(new RegExp(`\\|\\|${name}:[a-fA-F0-9]+`), '')
RegexReplace(str, name) ==
    LET m == RegexMatch(str, name)
    IN  IF m.found
        THEN SubSeq(str, 1, m.from - 1) \o SubSeq(str, m.to + 1, Len(str))
        ELSE str

\* str.includes(name)
Includes(str, name) == \E i \in 1..Len(str) : str[i] = name

\* keywords.split(',')
RECURSIVE SplitComma(_)
SplitComma(s) ==
    LET commas == {i \in 1..Len(s) : s[i] = Comma}
    IN  IF commas = {}
        THEN <<s>>
        ELSE <<SubSeq(s, 1, Min(commas) - 1)>>
             \o SplitComma(SubSeq(s, Min(commas) + 1, Len(s)))

\* k.trim()
RECURSIVE Trim(_)
Trim(s) ==
    IF s # <<>> /\ s[1] = Space THEN Trim(Tail(s))
    ELSE IF s # <<>> /\ s[Len(s)] = Space THEN Trim(SubSeq(s, 1, Len(s) - 1))
    ELSE s

\* pdf-lib setKeywords(words): the words joined by one space
RECURSIVE JoinSpace(_)
JoinSpace(words) ==
    IF words = <<>> THEN <<>>
    ELSE IF Len(words) = 1 THEN words[1]
    ELSE words[1] \o <<Space>> \o JoinSpace(Tail(words))

KeywordList(doc) ==
    IF doc.keywords.has
    THEN LET parts == SplitComma(doc.keywords.s)
         IN  [i \in 1..Len(parts) |-> Trim(parts[i])]
    ELSE <<>>

InjectSignature(pdfBuffer, signature, publicKey) ==
    LET pdfDoc == Load(pdfBuffer)
        existingProducer == OrElse(pdfDoc.producer, <<>>)
        existingCreator == OrElse(pdfDoc.creator, <<>>)
    IN  Save([pdfDoc EXCEPT
            !.title = Str(OrElse(pdfDoc.title, SignedDocumentTitle)),
            !.subject = Str(OrElse(pdfDoc.subject, <<>>)),
            !.keywords = Str(JoinSpace(KeywordList(pdfDoc))),
            !.producer = Str(existingProducer \o <<Sep, SIGNATURE_KEY, Colon>> \o signature),
            !.creator = Str(existingCreator \o <<Sep, OWNER_KEY, Colon>> \o publicKey)])

\* mutant of NormalizePdf: loaded without updateMetadata: false, so that
\* loading stamps a new modification date
NormalizePdfUpdatingMetadata(pdfBuffer) ==
    Save([Load(pdfBuffer) EXCEPT
        !.modDate = IF @ = "t0" THEN "t1" ELSE IF @ = "t1" THEN "t2" ELSE "t3"])

\* mutant of NormalizePdf: the uploaded bytes are passed on as they are
NormalizePdfAsIs(pdfBuffer) == pdfBuffer

NormalizePdf(pdfBuffer) == Save(Load(pdfBuffer))

NotSignedResult == [signed |-> FALSE]

ExtractAndStripSignature(pdfBuffer) ==
    LET pdfDoc == Load(pdfBuffer)
        producer == OrElse(pdfDoc.producer, <<>>)
        creator == OrElse(pdfDoc.creator, <<>>)
        signatureMatch == RegexMatch(producer, SIGNATURE_KEY)
        publicKeyMatch == RegexMatch(creator, OWNER_KEY)
    IN  IF ~signatureMatch.found \/ ~publicKeyMatch.found
        THEN NotSignedResult
        ELSE [signed |-> TRUE,
              signature |-> signatureMatch.group,
              publicKey |-> publicKeyMatch.group,
              strippedPdfBuffer |->
                  Save([pdfDoc EXCEPT
                      !.producer = Str(RegexReplace(producer, SIGNATURE_KEY)),
                      !.creator = Str(RegexReplace(creator, OWNER_KEY))])]

IsSignedDocument(pdfBuffer) ==
    IF ~IsPdf(pdfBuffer) THEN FALSE
    ELSE LET pdfDoc == Load(pdfBuffer)
         IN  /\ Includes(OrElse(pdfDoc.producer, <<>>), SIGNATURE_KEY)
             /\ Includes(OrElse(pdfDoc.creator, <<>>), OWNER_KEY)

\* ------------------------------------------------------------------ state
VARIABLES
    users,      \* identity store: the User collection, by user id
    registry,   \* Document Registry: the Document collection
    file,       \* the file the client currently holds, with its provenance
    calls,      \* the request handlers in flight, by call slot
    signatures, \* how many signatures signHash has produced so far
    codec,      \* one embed / extractAndStrip computation of the envelope codec
    unit,       \* one computation of a cryptoUtils / pdfUtils function
    sessions    \* by identity: its browser holds the token of a login

vars == <<users, registry, file, calls, signatures, codec, unit, sessions>>

CallIds == {1}

NoUser == [registered |-> FALSE]
NoBytes == [form |-> "none"]
NoHash == Sha256(NoBytes)
NoRes ==
    [status |-> 0, success |-> FALSE, verified |-> FALSE, message |-> "",
     signerPublicKey |-> <<>>, signature |-> <<>>, bytes |-> NoBytes]

\* a value in memory that was given key material: what it holds now
KeyBytes(k) == [kind |-> "bytes", holds |-> k]
KeyString(k) == [kind |-> "string", holds |-> k]
NoBuffers == [none |-> KeyBytes(0)]

\* console.log / console.error lines; substring(0, 16) of a hex string
Prefix16(hex) == [prefix |-> hex]
ErrorObject(name) == [error |-> name]
HashLogLine(pdfHash) == <<Chr("[SIGN] PDF hash: "), Prefix16(pdfHash)>>
DecryptionFailedLogLine ==
    <<Chr("[SIGN] Decryption failed:"), ErrorObject("decryptError")>>
\* mutant of SignatureLogLine: the key is printed next to the signature
SignatureLogLineWithKey(signatureHex, privateKeyBytes) ==
    <<Chr("[SIGN] Signature: "), Prefix16(signatureHex)>> \o KeyToHex(privateKeyBytes)
SignatureLogLine(signatureHex, privateKeyBytes) ==
    <<Chr("[SIGN] Signature: "), Prefix16(signatureHex)>>
RegisteredLogLine == <<Chr("[SIGN] Document registered in database: "), Chr(FileName)>>
SignedLogLine == <<Chr("[SIGN] Document signed successfully: "), Chr(FileName)>>
SignErrorLogLine == <<Chr("[SIGN] Error:"), ErrorObject("error")>>
VerifyErrorLogLine == <<Chr("[VERIFY] Error:"), ErrorObject("error")>>
NoSignatureLogLine == <<Chr("[VERIFY] No AegisSign signature found in PDF")>>
ExtractedLogLines(extractedData) ==
    {<<Chr("[VERIFY] Extracted signature: "), Prefix16(extractedData.signature)>>,
     <<Chr("[VERIFY] Extracted public key: "), Prefix16(extractedData.publicKey)>>}
NotInRegistryLogLine == <<Chr("[VERIFY] Signature not found in registry")>>
FoundRecordLogLine(email) ==
    <<Chr("[VERIFY] Found document record, signer: "), Chr(email)>>
MismatchLogLine == <<Chr("[VERIFY] Public key mismatch - possible tampering")>>
CleanHashLogLine(cleanHash) ==
    <<Chr("[VERIFY] Clean PDF hash: "), Prefix16(cleanHash)>>
VerdictLogLine(isValid) ==
    <<Chr(IF isValid THEN "[VERIFY] Signature VALID" ELSE "[VERIFY] Signature INVALID")>>
RegisteredUserLogLine(email) == <<Chr("[AUTH] New user registered: "), Chr(email)>>
LoggedInLogLine(email) == <<Chr("[AUTH] User logged in: "), Chr(email)>>

\* a handler frame: its request, its locals and its response
IdleCall ==
    [route |-> "none", authHeader |-> "none",
     op |-> "none", variant |-> "none", pc |-> "idle",
     userId |-> "none", password |-> NoPassword, mimetype |-> "",
     file |-> NoBytes, origin |-> "none", by |-> "none", registry0 |-> {},
     normalizedPdf |-> NoBytes, pdfHash |-> NoHash, cleanHash |-> NoHash,
     privateKeyBytes |-> "null", keyBuf |-> -1,
     signatureHex |-> <<>>, signedPdfBytes |-> NoBytes,
     extractedData |-> NotSignedResult, steps |-> {}, isValid |-> FALSE,
     buffers |-> NoBuffers, logged |-> {},
     res |-> NoRes]

\* documents a client may pick for upload
FullPdf ==
    [form |-> "raw", title |-> Str(<<Chr("x")>>), subject |-> Str(<<Chr("x")>>),
     keywords |-> Str(<<Chr("k")>>), producer |-> Str(<<Chr("x")>>),
     creator |-> Str(<<Chr("x")>>), modDate |-> "t0", content |-> "c0"]
BarePdf ==
    [form |-> "raw", title |-> Absent, subject |-> Absent,
     keywords |-> Absent, producer |-> Absent,
     creator |-> Absent, modDate |-> "t0", content |-> "c0"]
Uploads == {FullPdf, BarePdf, Malformed}
MimeTypes == {"application/pdf", "text/plain"}

CodecIdle ==
    [stage |-> "idle", c |-> NoBytes, s |-> <<>>, k |-> <<>>,
     signedBytes |-> NoBytes, extracted |-> NotSignedResult,
     hasEnvelope |-> FALSE]

UnitIdle == [fn |-> "none"]

Init ==
    /\ users = [u \in Users |-> NoUser]
    /\ registry = {}
    /\ file = [bytes |-> NoBytes, origin |-> "none", by |-> "none"]
    /\ calls = [c \in CallIds |-> IdleCall]
    /\ signatures = 0
    /\ sessions = [u \in Users |-> FALSE]
    /\ codec = CodecIdle
    /\ unit = UnitIdle

Idle == \A c \in DOMAIN calls : calls[c].pc = "idle"

\* ------------------------------------------------------------ responses
Json(status, success, verified, message, key) ==
    [status |-> status, success |-> success, verified |-> verified,
     message |-> message, signerPublicKey |-> key, signature |-> <<>>,
     bytes |-> NoBytes]

Respond(c, r) == calls' = [calls EXCEPT ![c].res = r, ![c].pc = "done"]

\* ------------------------------------------------------------ middleware
Routes == {"sign", "verify"}

\* authenticate on a request without Authorization header: 401, and the
\* route's handler is not called
AuthenticateReject(c, route) ==
    /\ calls[c].pc = "idle"
    /\ calls' = [calls EXCEPT ![c] =
           [IdleCall EXCEPT !.route = route, !.authHeader = "none",
               !.file = file.bytes, !.origin = file.origin, !.by = file.by,
               !.registry0 = registry, !.pc = "done",
               !.res = Json(401, FALSE, FALSE, "authentication-required", <<>>)]]
    /\ UNCHANGED <<users, registry, file, signatures, codec, unit, sessions>>

\* --------------------------------------------------------- authController
\* mutant of Signup: the stored salt is not the one the key-encryption key
\* was derived with
SignupStoringFreshSalt(c, u, password, salt, iv) ==
    /\ Idle
    /\ ~sessions[u]
    /\ c \in DOMAIN calls
    /\ LET frame == [IdleCall EXCEPT !.route = "signup", !.op = "signup",
                        !.userId = u, !.password = password,
                        !.registry0 = registry, !.pc = "done"]
           dek == DeriveKeyFromPassword(password, salt)
           privateKeyBytes == RandomKey(u)
           publicKey == KeyToHex(GetPublicKey(privateKeyBytes))
           privateKey == KeyToHex(privateKeyBytes)
           enc == EncryptPrivateKey(privateKey, dek, iv)
       IN  IF users[u].registered
           THEN /\ calls' = [calls EXCEPT ![c] =
                       [frame EXCEPT
                           !.res = Json(409, FALSE, FALSE, "account-exists", <<>>)]]
                /\ UNCHANGED users
           ELSE /\ users' = [users EXCEPT ![u] =
                       [registered |-> TRUE, email |-> u,
                        passwordHash |-> [bcrypt |-> password],
                        publicKey |-> publicKey,
                        encryptedPrivateKey |-> enc.encryptedPrivateKey,
                        iv |-> enc.iv, salt |-> salt + 1]]
                /\ calls' = [calls EXCEPT ![c] =
                       [frame EXCEPT
                           !.buffers =
                               [privateKeyBytes |-> KeyBytes(privateKeyBytes),
                                privateKey |-> KeyString(HexToKey(privateKey)),
                                privateKeyBuffer |-> KeyBytes(HexToKey(privateKey))],
                           !.logged = {RegisteredUserLogLine(u)},
                           !.res = Json(201, TRUE, FALSE, "account-created",
                                        publicKey)]]
    /\ UNCHANGED <<registry, file, signatures, codec, unit, sessions>>

\* the register and login pages are shown to a browser without a token only
Signup(c, u, password, salt, iv) ==
    /\ Idle
    /\ ~sessions[u]
    /\ c \in DOMAIN calls
    /\ LET frame == [IdleCall EXCEPT !.route = "signup", !.op = "signup",
                        !.userId = u, !.password = password,
                        !.registry0 = registry, !.pc = "done"]
           dek == DeriveKeyFromPassword(password, salt)
           privateKeyBytes == RandomKey(u)
           publicKey == KeyToHex(GetPublicKey(privateKeyBytes))
           privateKey == KeyToHex(privateKeyBytes)
           enc == EncryptPrivateKey(privateKey, dek, iv)
       IN  IF users[u].registered
           THEN /\ calls' = [calls EXCEPT ![c] =
                       [frame EXCEPT
                           !.res = Json(409, FALSE, FALSE, "account-exists", <<>>)]]
                /\ UNCHANGED users
           ELSE /\ users' = [users EXCEPT ![u] =
                       [registered |-> TRUE, email |-> u,
                        passwordHash |-> [bcrypt |-> password],
                        publicKey |-> publicKey,
                        encryptedPrivateKey |-> enc.encryptedPrivateKey,
                        iv |-> enc.iv, salt |-> salt]]
                /\ calls' = [calls EXCEPT ![c] =
                       [frame EXCEPT
                           !.buffers =
                               [privateKeyBytes |-> KeyBytes(privateKeyBytes),
                                privateKey |-> KeyString(HexToKey(privateKey)),
                                privateKeyBuffer |-> KeyBytes(HexToKey(privateKey))],
                           !.logged = {RegisteredUserLogLine(u)},
                           !.res = Json(201, TRUE, FALSE, "account-created",
                                        publicKey)]]
    /\ UNCHANGED <<registry, file, signatures, codec, unit, sessions>>

\* mutant of Login: a successful login stores the identity again under a
\* new nonce
LoginRewrapping(c, u, password) ==
    /\ calls[c].pc = "idle"
    /\ ~sessions[u]
    /\ LET frame == [IdleCall EXCEPT !.route = "login", !.op = "login",
                        !.userId = u, !.password = password,
                        !.registry0 = registry, !.pc = "done"]
           ok == users[u].registered
                 /\ users[u].passwordHash = [bcrypt |-> password]
       IN  /\ calls' = [calls EXCEPT ![c] =
                  IF ~ok
                  THEN [frame EXCEPT
                           !.res = Json(401, FALSE, FALSE, "invalid-login", <<>>)]
                  ELSE [frame EXCEPT
                           !.res = Json(200, TRUE, FALSE, "login-successful",
                                        users[u].publicKey)]]
           /\ users' = IF ok THEN [users EXCEPT ![u].iv = 2] ELSE users
    /\ UNCHANGED <<registry, file, signatures, codec, unit, sessions>>

Login(c, u, password) ==
    /\ calls[c].pc = "idle"
    /\ ~sessions[u]
    /\ LET frame == [IdleCall EXCEPT !.route = "login", !.op = "login",
                        !.userId = u, !.password = password,
                        !.registry0 = registry, !.pc = "done"]
       IN  calls' = [calls EXCEPT ![c] =
               IF ~users[u].registered
                  \/ users[u].passwordHash # [bcrypt |-> password]
               THEN [frame EXCEPT
                        !.res = Json(401, FALSE, FALSE, "invalid-login", <<>>)]
               ELSE [frame EXCEPT
                        !.logged = {LoggedInLogLine(u)},
                        !.res = Json(200, TRUE, FALSE, "login-successful",
                                     users[u].publicKey)]]
    /\ UNCHANGED <<users, registry, file, signatures, codec, unit, sessions>>

\* ---------------------------------------------- documentController: sign

\* entry: input validation and User.findById
SignStart(c, userId, password, mimetype, variant) ==
    /\ calls[c].pc = "idle"
    /\ sessions[userId]
    /\ file.origin \in {"none", "upload", "signed", "signed-unregistered"}
    /\ signatures < MaxSignatures
    /\ LET frame == [IdleCall EXCEPT !.route = "sign", !.authHeader = "bearer",
                        !.op = "sign", !.variant = variant,
                        !.userId = userId, !.password = password,
                        !.mimetype = mimetype, !.registry0 = registry,
                        !.file = file.bytes, !.origin = file.origin,
                        !.by = file.by]
           reject(status, message) ==
               [frame EXCEPT !.pc = "done",
                   !.res = Json(status, FALSE, FALSE, message, <<>>)]
       IN  calls' = [calls EXCEPT ![c] =
               IF file.bytes = NoBytes THEN reject(400, "no-file")
               ELSE IF password = NoPassword THEN reject(400, "password-required")
               ELSE IF mimetype # "application/pdf" THEN reject(400, "only-pdf")
               ELSE IF ~users[userId].registered THEN reject(404, "user-not-found")
               ELSE [frame EXCEPT !.pc = "normalize"]]
    /\ UNCHANGED <<users, registry, file, signatures, codec, unit, sessions>>

\* Step 1: normalizePdf and hashPdfBuffer
SignNormalize(c) ==
    /\ calls[c].op = "sign" /\ calls[c].pc = "normalize"
    /\ calls' = [calls EXCEPT ![c] =
           IF ~IsPdf(calls[c].file)
           THEN [@ EXCEPT !.pc = "catch"]
           ELSE LET normalizedPdf == NormalizePdf(calls[c].file)
                IN  [@ EXCEPT !.normalizedPdf = normalizedPdf,
                              !.pdfHash = HashPdfBuffer(normalizedPdf),
                              !.logged = @ \cup
                                  {HashLogLine(HashPdfBuffer(normalizedPdf))},
                              !.pc = "unwrap"]]
    /\ UNCHANGED <<users, registry, file, signatures, codec, unit, sessions>>

\* Steps 2-3: deriveKeyFromPassword, then decryptPrivateKey in its own try
SignUnwrap(c) ==
    /\ calls[c].op = "sign" /\ calls[c].pc = "unwrap"
    /\ LET user == users[calls[c].userId]
           dek == DeriveKeyFromPassword(calls[c].password, user.salt)
       IN  calls' = [calls EXCEPT ![c] =
               IF DecryptThrows(user.encryptedPrivateKey, user.iv, dek)
               THEN [@ EXCEPT !.pc = "done",
                       !.logged = @ \cup {DecryptionFailedLogLine},
                       !.res = Json(401, FALSE, FALSE, "invalid-password", <<>>)]
               ELSE [@ EXCEPT !.privateKeyBytes = "buffer",
                       !.steps = @ \cup {"unwrapped"},
                       !.keyBuf = DecryptPrivateKey(user.encryptedPrivateKey, user.iv, dek),
                       !.buffers = DecryptPrivateKeyBuffers(
                                       user.encryptedPrivateKey, user.iv, dek),
                       !.pc = "sign"]]
    /\ UNCHANGED <<users, registry, file, signatures, codec, unit, sessions>>

\* mutant of SignSign: the handler goes on to injectSignature without the
\* wipe of Step 5
SignSignWithoutWipe(c, throws) ==
    /\ calls[c].op = "sign" /\ calls[c].pc = "sign"
    /\ calls' = [calls EXCEPT ![c] =
           IF throws
           THEN [@ EXCEPT !.pc = "catch"]
           ELSE [@ EXCEPT !.signatureHex =
                              SignHash(calls[c].pdfHash, calls[c].keyBuf),
                          !.pc = "inject"]]
    /\ signatures' = IF throws THEN signatures ELSE signatures + 1
    /\ UNCHANGED <<users, registry, file, codec, unit, sessions>>

\* Step 4: signHash
SignSign(c, throws) ==
    /\ calls[c].op = "sign" /\ calls[c].pc = "sign"
    /\ calls' = [calls EXCEPT ![c] =
           IF throws
           THEN [@ EXCEPT !.pc = "catch"]
           ELSE [@ EXCEPT !.signatureHex =
                              SignHash(calls[c].pdfHash, calls[c].keyBuf),
                          !.logged = @ \cup
                              {SignatureLogLine(
                                   SignHash(calls[c].pdfHash, calls[c].keyBuf),
                                   calls[c].keyBuf)},
                          !.pc = "wipe"]]
    /\ signatures' = IF throws THEN signatures ELSE signatures + 1
    /\ UNCHANGED <<users, registry, file, codec, unit, sessions>>

\* mutant of SignWipe: the key bytes live in one buffer shared by the requests
\* in flight, so the wipe of one request zeroes the key of the others
SignWipeSharedBuffer(c) ==
    /\ calls[c].op = "sign" /\ calls[c].pc = "wipe"
    /\ calls' = [d \in DOMAIN calls |->
                    IF d = c
                    THEN [calls[d] EXCEPT !.keyBuf = SecureWipe(@),
                                          !.privateKeyBytes = "null",
                                          !.pc = "inject"]
                    ELSE IF calls[d].privateKeyBytes = "buffer"
                    THEN [calls[d] EXCEPT !.keyBuf = SecureWipe(@)]
                    ELSE calls[d]]
    /\ UNCHANGED <<users, registry, file, signatures, codec, unit, sessions>>

\* Step 5: secureWipe(privateKeyBytes); privateKeyBytes = null
SignWipe(c) ==
    /\ calls[c].op = "sign" /\ calls[c].pc = "wipe"
    /\ calls' = [calls EXCEPT ![c].keyBuf = SecureWipe(@),
                              ![c].privateKeyBytes = "null",
                              ![c].pc = "inject"]
    /\ UNCHANGED <<users, registry, file, signatures, codec, unit, sessions>>

\* Step 6: injectSignature
SignInject(c, throws) ==
    /\ calls[c].op = "sign" /\ calls[c].pc = "inject"
    /\ calls' = [calls EXCEPT ![c] =
           IF throws
           THEN [@ EXCEPT !.pc = "catch"]
           ELSE [@ EXCEPT !.signedPdfBytes =
                              InjectSignature(calls[c].normalizedPdf,
                                              calls[c].signatureHex,
                                              users[calls[c].userId].publicKey),
                          !.pc = IF calls[c].variant = "registry"
                                 THEN "register" ELSE "send"]]
    /\ UNCHANGED <<users, registry, file, signatures, codec, unit, sessions>>

\* mutant of DuplicateKey: the collection has no unique index
DuplicateKeyNoIndex(entry) == FALSE

\* the unique index on signature
DuplicateKey(entry) == \E e \in registry : e.signature = entry.signature

\* the _id the collection gives a new document
NewId == Cardinality(registry) + 1

\* mutant of SignRegister: the entry names another identity as signer
SignRegisterOtherSigner(c, dbFault) ==
    /\ calls[c].op = "sign" /\ calls[c].pc = "register"
    /\ LET entry == [id |-> NewId,
                     hash |-> calls[c].pdfHash,
                     signature |-> calls[c].signatureHex,
                     signer |-> CHOOSE u \in Users : u # calls[c].userId,
                     fileName |-> FileName]
       IN  IF dbFault \/ DuplicateKey(entry)
           THEN /\ calls' = [calls EXCEPT ![c].pc = "catch",
                                          ![c].steps =
                                              @ \cup {"insert-failed"}
                                                \cup IF DuplicateKey(entry)
                                                     THEN {"duplicate-key"}
                                                     ELSE {}]
                /\ UNCHANGED registry
           ELSE /\ registry' = registry \cup {entry}
                /\ calls' = [calls EXCEPT ![c].pc = "send",
                                          ![c].logged = @ \cup {RegisteredLogLine}]
    /\ UNCHANGED <<users, file, signatures, codec, unit, sessions>>

\* Step 7: DocumentModel.create
SignRegister(c, dbFault) ==
    /\ calls[c].op = "sign" /\ calls[c].pc = "register"
    /\ LET entry == [id |-> NewId,
                     hash |-> calls[c].pdfHash,
                     signature |-> calls[c].signatureHex,
                     signer |-> calls[c].userId,
                     fileName |-> FileName]
       IN  IF dbFault \/ DuplicateKey(entry)
           THEN /\ calls' = [calls EXCEPT ![c].pc = "catch",
                                          ![c].steps =
                                              @ \cup {"insert-failed"}
                                                \cup IF DuplicateKey(entry)
                                                     THEN {"duplicate-key"}
                                                     ELSE {}]
                /\ UNCHANGED registry
           ELSE /\ registry' = registry \cup {entry}
                /\ calls' = [calls EXCEPT ![c].pc = "send",
                                          ![c].logged = @ \cup {RegisteredLogLine}]
    /\ UNCHANGED <<users, file, signatures, codec, unit, sessions>>

\* Step 8: headers and res.send(signedPdfBytes)
SignSend(c, throws) ==
    /\ calls[c].op = "sign" /\ calls[c].pc = "send"
    /\ calls' = [calls EXCEPT ![c] =
           IF throws
           THEN [@ EXCEPT !.pc = "catch"]
           ELSE [@ EXCEPT !.pc = "done",
                    !.logged = @ \cup {SignedLogLine},
                    !.res = [status |-> 200, success |-> TRUE, verified |-> FALSE,
                             message |-> "signed-pdf",
                             signerPublicKey |-> users[calls[c].userId].publicKey,
                             signature |-> calls[c].signatureHex,
                             bytes |-> calls[c].signedPdfBytes]]]
    /\ UNCHANGED <<users, registry, file, signatures, codec, unit, sessions>>

\* the outer catch: wipe the key if it is still referenced, answer 500
SignCatch(c) ==
    /\ calls[c].op = "sign" /\ calls[c].pc = "catch"
    /\ calls' = [calls EXCEPT ![c] =
           [@ EXCEPT !.keyBuf = IF calls[c].privateKeyBytes # "null"
                                THEN SecureWipe(@) ELSE @,
                     !.pc = "done",
                     !.logged = @ \cup {SignErrorLogLine},
                     !.res = Json(500, FALSE, FALSE, "sign-error", <<>>)]]
    /\ UNCHANGED <<users, registry, file, signatures, codec, unit, sessions>>

\* -------------------------------------------- documentController: verify
\* entry: input validation (both handlers)
VerifyStart(c, mimetype, variant) ==
    /\ calls[c].pc = "idle"
    /\ \E u \in Users : sessions[u]
    /\ LET frame == [IdleCall EXCEPT !.route = "verify", !.authHeader = "bearer",
                        !.op = "verify", !.variant = variant,
                        !.mimetype = mimetype, !.registry0 = registry,
                        !.file = file.bytes, !.origin = file.origin,
                        !.by = file.by]
           reject(message) ==
               [frame EXCEPT !.pc = "done",
                   !.res = Json(400, FALSE, FALSE, message, <<>>)]
       IN  calls' = [calls EXCEPT ![c] =
               IF file.bytes = NoBytes THEN reject("no-file")
               ELSE IF mimetype # "application/pdf" THEN reject("only-pdf")
               ELSE [frame EXCEPT !.pc = "extract"]]
    /\ UNCHANGED <<users, registry, file, signatures, codec, unit, sessions>>

\* Step 1: extractAndStripSignature; null is answered at once
VerifyExtract(c) ==
    /\ calls[c].op = "verify" /\ calls[c].pc = "extract"
    /\ calls' = [calls EXCEPT ![c] =
           IF ~IsPdf(calls[c].file)
           THEN [@ EXCEPT !.pc = "done",
                   !.logged = @ \cup {VerifyErrorLogLine},
                   !.res = Json(500, FALSE, FALSE, "verify-error", <<>>)]
           ELSE LET extractedData == ExtractAndStripSignature(calls[c].file)
                IN  IF ~extractedData.signed
                    THEN [@ EXCEPT !.pc = "done",
                            !.logged = IF calls[c].variant = "registry"
                                       THEN @ \cup {NoSignatureLogLine} ELSE @,
                            !.res = IF calls[c].variant = "registry"
                                    THEN Json(200, TRUE, FALSE, "not-signed", <<>>)
                                    ELSE Json(400, FALSE, FALSE, "not-signed", <<>>)]
                    ELSE [@ EXCEPT !.extractedData = extractedData,
                            !.logged = @ \cup ExtractedLogLines(extractedData),
                            !.steps = {"stripped"},
                            !.pc = IF calls[c].variant = "registry"
                                   THEN "lookup" ELSE "check"]]
    /\ UNCHANGED <<users, registry, file, signatures, codec, unit, sessions>>

\* DocumentModel.findOne({signature}).populate('signer')
FindBySignature(signature) == {e \in registry : e.signature = signature}

\* mutant of VerifyLookup: the public-key comparison is left out
VerifyLookupNoKeyCheck(c) ==
    /\ calls[c].op = "verify" /\ calls[c].pc = "lookup"
    /\ LET found == FindBySignature(calls[c].extractedData.signature)
       IN  Respond(c,
               IF found = {} \/ \A e \in found : ~users[e.signer].registered
               THEN Json(200, TRUE, FALSE, "not-in-registry", <<>>)
               ELSE LET documentRecord == CHOOSE e \in found : TRUE
                    IN  Json(200, TRUE, TRUE, "verified",
                             users[documentRecord.signer].publicKey))
    /\ UNCHANGED <<users, registry, file, signatures, codec, unit, sessions>>

\* registry-backed handler, Steps 2-3: registry lookup and key comparison
VerifyLookup(c) ==
    /\ calls[c].op = "verify" /\ calls[c].pc = "lookup"
    /\ LET extractedData == calls[c].extractedData
           found == FindBySignature(extractedData.signature)
           answer(r, lines) ==
               [calls EXCEPT ![c].res = r, ![c].pc = "done",
                             ![c].logged = @ \cup lines]
       IN  calls' =
               IF found = {} \/ \A e \in found : ~users[e.signer].registered
               THEN answer(Json(200, TRUE, FALSE, "not-in-registry", <<>>),
                           {NotInRegistryLogLine})
               ELSE LET documentRecord == CHOOSE e \in found : TRUE
                        signer == users[documentRecord.signer]
                    IN  IF extractedData.publicKey # signer.publicKey
                        THEN answer(Json(200, TRUE, FALSE, "key-mismatch",
                                         signer.publicKey),
                                    {FoundRecordLogLine(signer.email),
                                     MismatchLogLine})
                        ELSE answer(Json(200, TRUE, TRUE, "verified",
                                         signer.publicKey),
                                    {FoundRecordLogLine(signer.email),
                                     VerdictLogLine(TRUE)})
    /\ UNCHANGED <<users, registry, file, signatures, codec, unit, sessions>>

\* cryptographic handler, Steps 2-3: re-hash the stripped bytes, verifySignature
VerifyCheck(c) ==
    /\ calls[c].op = "verify" /\ calls[c].pc = "check"
    /\ LET extractedData == calls[c].extractedData
           cleanHash == HashPdfBuffer(extractedData.strippedPdfBuffer)
           isValid == VerifySignature(extractedData.signature, cleanHash,
                                      extractedData.publicKey)
       IN  calls' = [calls EXCEPT ![c] =
               [@ EXCEPT !.steps = @ \cup {"digested", "checked"},
                         !.cleanHash = cleanHash,
                         !.logged = @ \cup {CleanHashLogLine(cleanHash),
                                            VerdictLogLine(isValid)},
                         !.isValid = isValid,
                         !.pc = "done",
                         !.res = IF isValid
                                 THEN Json(200, TRUE, TRUE, "verified",
                                           extractedData.publicKey)
                                 ELSE Json(200, TRUE, FALSE, "verification-failed",
                                           extractedData.publicKey)]]
    /\ UNCHANGED <<users, registry, file, signatures, codec, unit, sessions>>

\* ----------------------------------------------------------------- client
\* the response reaches the client; a signed PDF becomes the held file.
\* saveAuth after signup / login stores the token; the response interceptor
\* removes it on every 401
Deliver(c) ==
    /\ calls[c].pc = "done"
    /\ calls' = [calls EXCEPT ![c] = IdleCall]
    /\ file' = IF calls[c].op = "sign" /\ calls[c].res.status = 200
               THEN [bytes |-> calls[c].res.bytes,
                     origin |-> IF calls[c].variant = "registry"
                                THEN "signed" ELSE "signed-unregistered",
                     by |-> calls[c].userId]
               ELSE file
    /\ sessions' =
           IF calls[c].userId \in Users /\ calls[c].res.status = 401
           THEN [sessions EXCEPT ![calls[c].userId] = FALSE]
           ELSE IF calls[c].op \in {"signup", "login"} /\ calls[c].res.success
           THEN [sessions EXCEPT ![calls[c].userId] = TRUE]
           ELSE sessions
    /\ UNCHANGED <<users, registry, signatures, codec, unit>>

\* the client picks a document to upload
SelectFile(bytes) ==
    /\ Idle
    /\ file.bytes # bytes
    /\ file' = [bytes |-> bytes, origin |-> "upload", by |-> "none"]
    /\ UNCHANGED <<users, registry, calls, signatures, codec, unit, sessions>>

\* a content byte of the held signed document is changed, metadata untouched
TamperContent ==
    /\ Idle
    /\ file.origin \in {"signed", "signed-unregistered"}
    /\ file' = [file EXCEPT !.bytes.content = "c1",
                            !.origin = IF @ = "signed" THEN "content-changed"
                                       ELSE "content-changed-unregistered"]
    /\ UNCHANGED <<users, registry, calls, signatures, codec, unit, sessions>>

\* the hex payload of the first key token is replaced by another user's key
SwapKey(u) ==
    /\ Idle
    /\ file.origin = "signed"
    /\ users[u].registered
    /\ LET creator == file.bytes.creator.s
           m == RegexMatch(creator, OWNER_KEY)
       IN  /\ m.found
           /\ m.group # users[u].publicKey
           /\ file' = [file EXCEPT
                  !.bytes.creator = Str(SubSeq(creator, 1, m.from + 2)
                                        \o users[u].publicKey
                                        \o SubSeq(creator, m.to + 1, Len(creator))),
                  !.origin = "key-swapped"]
    /\ UNCHANGED <<users, registry, calls, signatures, codec, unit, sessions>>

Variants == {"registry", "crypto"}

Next ==
    \/ \E c \in CallIds, u \in Users, pw \in Passwords, salt \in Salts,
          iv \in Ivs : Signup(c, u, pw, salt, iv)
    \/ \E c \in CallIds, u \in Users, pw \in Passwords : Login(c, u, pw)
    \/ \E c \in CallIds, route \in Routes : AuthenticateReject(c, route)
    \/ \E c \in CallIds, u \in Users, pw \in Passwords \cup {NoPassword},
          m \in MimeTypes, v \in Variants : SignStart(c, u, pw, m, v)
    \/ \E c \in CallIds : SignNormalize(c)
    \/ \E c \in CallIds : SignUnwrap(c)
    \/ \E c \in CallIds, throws \in BOOLEAN : SignSign(c, throws)
    \/ \E c \in CallIds : SignWipe(c)
    \/ \E c \in CallIds, throws \in BOOLEAN : SignInject(c, throws)
    \/ \E c \in CallIds, dbFault \in BOOLEAN : SignRegister(c, dbFault)
    \/ \E c \in CallIds, throws \in BOOLEAN : SignSend(c, throws)
    \/ \E c \in CallIds : SignCatch(c)
    \/ \E c \in CallIds, m \in MimeTypes, v \in Variants : VerifyStart(c, m, v)
    \/ \E c \in CallIds : VerifyExtract(c)
    \/ \E c \in CallIds : VerifyLookup(c)
    \/ \E c \in CallIds : VerifyCheck(c)
    \/ \E c \in CallIds : Deliver(c)
    \/ \E bytes \in Uploads : SelectFile(bytes)
    \/ TamperContent
    \/ \E u \in Users : SwapKey(u)

Spec == Init /\ [][Next]_vars

\* ------------------------------------------- envelope codec on its own
CodecFields == {Absent, Str(<<Chr("x")>>)}
CodecKeywords == {Absent, Str(<<Chr("k")>>), Str(<<Chr("k"), Comma, Space, Chr("k")>>)}
CodecProducers ==
    {Absent, Str(<<Chr("x")>>),
     Str(<<Chr("x"), Sep, SIGNATURE_KEY, Colon, [junk |-> 1]>>),
     Str(<<Chr("x"), SIGNATURE_KEY>>)}
CodecCreators == {Absent, Str(<<Chr("x")>>), Str(<<Chr("x"), OWNER_KEY>>)}

\* canonical documents: what pdfDoc.save() wrote
CanonicalDocs ==
    {Save([title |-> t, subject |-> sub, keywords |-> kw, producer |-> pr,
           creator |-> cr, modDate |-> "t0", content |-> "c0"]) :
        t \in CodecFields, sub \in CodecFields, kw \in CodecKeywords,
        pr \in CodecProducers, cr \in CodecCreators}
CodecSignatures == {SignHash(NoHash, 1), <<[junk |-> 2]>>}
CodecKeys == {KeyToHex(GetPublicKey(k)) : k \in PrivateKeys}

InitCodec ==
    /\ users = [u \in Users |-> NoUser]
    /\ registry = {}
    /\ file = [bytes |-> NoBytes, origin |-> "none", by |-> "none"]
    /\ calls = [c \in CallIds |-> IdleCall]
    /\ signatures = 0
    /\ sessions = [u \in Users |-> FALSE]
    /\ codec \in [stage : {"input"}, c : CanonicalDocs, s : CodecSignatures,
                  k : CodecKeys, signedBytes : {NoBytes},
                  extracted : {NotSignedResult}, hasEnvelope : {FALSE}]
    /\ unit = UnitIdle

CodecEmbed ==
    /\ codec.stage = "input"
    /\ codec' = [codec EXCEPT !.stage = "embedded",
                    !.signedBytes = InjectSignature(codec.c, codec.s, codec.k)]
    /\ UNCHANGED <<users, registry, file, calls, signatures, unit, sessions>>

CodecExtract ==
    /\ codec.stage = "embedded"
    /\ codec' = [codec EXCEPT !.stage = "extracted",
                    !.extracted = ExtractAndStripSignature(codec.signedBytes)]
    /\ UNCHANGED <<users, registry, file, calls, signatures, unit, sessions>>

\* extractAndStripSignature on the canonical document itself
CodecExtractPlain ==
    /\ codec.stage = "input"
    /\ codec' = [codec EXCEPT !.stage = "extracted-plain",
                    !.signedBytes = codec.c,
                    !.extracted = ExtractAndStripSignature(codec.c)]
    /\ UNCHANGED <<users, registry, file, calls, signatures, unit, sessions>>

\* isSignedDocument on the bytes given to extractAndStripSignature
CodecProbe ==
    /\ codec.stage \in {"extracted", "extracted-plain"}
    /\ codec' = [codec EXCEPT !.stage = "probed",
                    !.hasEnvelope = IsSignedDocument(codec.signedBytes)]
    /\ UNCHANGED <<users, registry, file, calls, signatures, unit, sessions>>

NextCodec == CodecEmbed \/ CodecExtract \/ CodecExtractPlain \/ CodecProbe

SpecCodec == InitCodec /\ [][NextCodec]_vars

\* ----------------------------------------------- key wrapping on its own
WrapPasswords == Passwords \cup {NoPassword}
WrapSalts == {1, 2}
WrapIvs == {1, 2}

InitWrap ==
    /\ users = [u \in Users |-> NoUser]
    /\ registry = {}
    /\ file = [bytes |-> NoBytes, origin |-> "none", by |-> "none"]
    /\ calls = [c \in CallIds |-> IdleCall]
    /\ signatures = 0
    /\ sessions = [u \in Users |-> FALSE]
    /\ codec = CodecIdle
    /\ unit \in [fn : {"wrap"}, stage : {"input"}, key : PrivateKeys,
                 password : WrapPasswords, salt : WrapSalts]

\* signup: deriveKeyFromPassword, then encryptPrivateKey with a fresh iv
WrapEncrypt(iv) ==
    /\ unit.fn = "wrap" /\ unit.stage = "input"
    /\ LET dek == DeriveKeyFromPassword(unit.password, unit.salt)
           enc == EncryptPrivateKey(KeyToHex(unit.key), dek, iv)
       IN  unit' = [fn |-> "wrap", stage |-> "wrapped", key |-> unit.key,
                    password |-> unit.password, salt |-> unit.salt,
                    encryptedPrivateKey |-> enc.encryptedPrivateKey,
                    iv |-> enc.iv]
    /\ UNCHANGED <<users, registry, file, calls, signatures, codec, sessions>>

\* signDocument: deriveKeyFromPassword with the stored salt, decryptPrivateKey
WrapDecrypt(password) ==
    /\ unit.fn = "wrap" /\ unit.stage = "wrapped"
    /\ LET dek == DeriveKeyFromPassword(password, unit.salt)
           throws == DecryptThrows(unit.encryptedPrivateKey, unit.iv, dek)
       IN  unit' = [fn |-> "wrap", stage |-> "unwrapped", key |-> unit.key,
                    password |-> unit.password, salt |-> unit.salt,
                    encryptedPrivateKey |-> unit.encryptedPrivateKey,
                    iv |-> unit.iv, given |-> password, throws |-> throws,
                    privateKeyBytes |->
                        IF throws THEN -1
                        ELSE DecryptPrivateKey(unit.encryptedPrivateKey,
                                               unit.iv, dek)]
    /\ UNCHANGED <<users, registry, file, calls, signatures, codec, sessions>>

NextWrap ==
    \/ \E iv \in WrapIvs : WrapEncrypt(iv)
    \/ \E password \in WrapPasswords : WrapDecrypt(password)

SpecWrap == InitWrap /\ [][NextWrap]_vars

\* --------------------------------------------- verifySignature on its own
VerifyHashes == {Sha256(FullPdf), Sha256(BarePdf)}
VerifySignatureInputs ==
    {<<>>, <<Chr("z")>>, <<HexDigit(7)>>, <<[junk |-> 1]>>}
    \cup {SignHash(h, k) \o tail :
             h \in VerifyHashes, k \in PrivateKeys,
             tail \in {<<>>, <<HexDigit(7)>>, <<Chr("z")>>,
                       <<HexDigit(7), HexDigit(7)>>}}
VerifyKeyInputs ==
    {<<>>, <<Chr("z")>>}
    \cup {KeyToHex(GetPublicKey(k)) \o tail :
             k \in PrivateKeys, tail \in {<<>>, <<HexDigit(7)>>}}

InitVerify ==
    /\ users = [u \in Users |-> NoUser]
    /\ registry = {}
    /\ file = [bytes |-> NoBytes, origin |-> "none", by |-> "none"]
    /\ calls = [c \in CallIds |-> IdleCall]
    /\ signatures = 0
    /\ sessions = [u \in Users |-> FALSE]
    /\ codec = CodecIdle
    /\ unit \in [fn : {"verifySignature"}, stage : {"input"},
                 signature : VerifySignatureInputs, hash : VerifyHashes,
                 publicKey : VerifyKeyInputs]

UnitVerifySignature ==
    /\ unit.fn = "verifySignature" /\ unit.stage = "input"
    /\ unit' = [fn |-> "verifySignature", stage |-> "returned",
                signature |-> unit.signature, hash |-> unit.hash,
                publicKey |-> unit.publicKey,
                completion |-> VerifySignatureCompletion(
                                   unit.signature, unit.hash, unit.publicKey)]
    /\ UNCHANGED <<users, registry, file, calls, signatures, codec, sessions>>

NextVerify == UnitVerifySignature

SpecVerify == InitVerify /\ [][NextVerify]_vars

\* ------------------------------------------------ normalizePdf on its own
\* the same documents as the client's software wrote them
RawDocs == {[c EXCEPT !.form = "raw"] : c \in CanonicalDocs}
NormalizeInputs == CanonicalDocs \cup RawDocs \cup {Malformed}

InitNormalize ==
    /\ users = [u \in Users |-> NoUser]
    /\ registry = {}
    /\ file = [bytes |-> NoBytes, origin |-> "none", by |-> "none"]
    /\ calls = [c \in CallIds |-> IdleCall]
    /\ signatures = 0
    /\ sessions = [u \in Users |-> FALSE]
    /\ codec = CodecIdle
    /\ unit \in [fn : {"normalizePdf"}, stage : {"input"}, x : NormalizeInputs]

\* normalizePdf(x); PDFDocument.load rejects bytes it cannot parse
UnitNormalize ==
    /\ unit.fn = "normalizePdf" /\ unit.stage = "input"
    /\ unit' = IF IsPdf(unit.x)
               THEN [fn |-> "normalizePdf", stage |-> "once", x |-> unit.x,
                     once |-> NormalizePdf(unit.x)]
               ELSE [fn |-> "normalizePdf", stage |-> "thrown", x |-> unit.x]
    /\ UNCHANGED <<users, registry, file, calls, signatures, codec, sessions>>

\* normalizePdf applied to its own output
UnitNormalizeAgain ==
    /\ unit.fn = "normalizePdf" /\ unit.stage = "once"
    /\ unit' = [fn |-> "normalizePdf", stage |-> "twice", x |-> unit.x,
                once |-> unit.once, twice |-> NormalizePdf(unit.once)]
    /\ UNCHANGED <<users, registry, file, calls, signatures, codec, sessions>>

NextNormalize == UnitNormalize \/ UnitNormalizeAgain

SpecNormalize == InitNormalize /\ [][NextNormalize]_vars

\* --------------------------------------------- two requests in flight at once
ConcurrentCallIds == {1, 2}
ConcurrentUploads == {FullPdf, Malformed}

\* both identities have signed up; no request has been made yet
InitConcurrent ==
    /\ users = [u \in Users |->
           LET dek == DeriveKeyFromPassword("pw-one", 1)
               enc == EncryptPrivateKey(KeyToHex(RandomKey(u)), dek, 1)
           IN  [registered |-> TRUE, email |-> u,
                passwordHash |-> [bcrypt |-> "pw-one"],
                publicKey |-> KeyToHex(GetPublicKey(RandomKey(u))),
                encryptedPrivateKey |-> enc.encryptedPrivateKey,
                iv |-> enc.iv, salt |-> 1]]
    /\ registry = {}
    /\ file = [bytes |-> NoBytes, origin |-> "none", by |-> "none"]
    /\ calls = [c \in ConcurrentCallIds |-> IdleCall]
    /\ signatures = 0
    /\ sessions = [u \in Users |-> TRUE]
    /\ codec = CodecIdle
    /\ unit = UnitIdle

NextConcurrent ==
    \/ \E c \in ConcurrentCallIds, u \in Users, pw \in Passwords :
          SignStart(c, u, pw, "application/pdf", "registry")
    \/ \E c \in ConcurrentCallIds : SignNormalize(c)
    \/ \E c \in ConcurrentCallIds : SignUnwrap(c)
    \/ \E c \in ConcurrentCallIds : SignSign(c, FALSE)
    \/ \E c \in ConcurrentCallIds : SignWipe(c)
    \/ \E c \in ConcurrentCallIds : SignInject(c, FALSE)
    \/ \E c \in ConcurrentCallIds, dbFault \in BOOLEAN : SignRegister(c, dbFault)
    \/ \E c \in ConcurrentCallIds : SignSend(c, FALSE)
    \/ \E c \in ConcurrentCallIds : SignCatch(c)
    \/ \E c \in ConcurrentCallIds : VerifyStart(c, "application/pdf", "registry")
    \/ \E c \in ConcurrentCallIds : VerifyExtract(c)
    \/ \E c \in ConcurrentCallIds : VerifyLookup(c)
    \/ \E c \in ConcurrentCallIds : Deliver(c)
    \/ \E bytes \in ConcurrentUploads : SelectFile(bytes)

SpecConcurrent == InitConcurrent /\ [][NextConcurrent]_vars

\* ------------------------------------------------------------- outcomes
Outcome(res) ==
    IF res.status = 200 /\ res.verified THEN "Valid"
    ELSE IF res.message = "not-signed" THEN "NotSigned"
    ELSE IF res.message = "not-in-registry" THEN "Unregistered"
    ELSE IF res.message = "key-mismatch" THEN "Tampered"
    ELSE IF res.message = "verification-failed" THEN "Invalid"
    ELSE IF res.message = "invalid-password" THEN "InvalidCredential"
    ELSE IF res.message = "signed-pdf" THEN "Signed"
    ELSE IF res.message = "authentication-required" THEN "Unauthenticated"
    ELSE "Error"

SignDone(c) == calls[c].op = "sign" /\ calls[c].pc = "done"
VerifyDone(c) == calls[c].op = "verify" /\ calls[c].pc = "done"

\* ================================================================ claims

\* C1: when a registered identity A signs a parsable document with its own
\* password and signed bytes come back, every later verification of those
\* unmodified bytes ends in Valid and reports A's public key.
C1_SignedThenVerifiedValid ==
    \A c \in CallIds :
        (VerifyDone(c) /\ calls[c].origin = "signed"
            /\ calls[c].mimetype = "application/pdf")
        => /\ Outcome(calls[c].res) = "Valid"
           /\ calls[c].res.signerPublicKey = users[calls[c].by].publicKey

\* C2: verifying a signed document whose content was changed after signing,
\* with the signature and public-key tokens left intact, ends in Invalid.
C2_ChangedContentInvalid ==
    \A c \in CallIds :
        (VerifyDone(c) /\ calls[c].origin = "content-changed"
            /\ calls[c].mimetype = "application/pdf")
        => Outcome(calls[c].res) = "Invalid"

\* C3: extractAndStrip(embed(c, s, k)) returns signature s, public key k and
\* stripped bytes identical to c, for every canonical document c.
C3_RoundTrip ==
    codec.stage = "extracted"
    => codec.extracted =
           [signed |-> TRUE, signature |-> codec.s, publicKey |-> codec.k,
            strippedPdfBuffer |-> codec.c]

\* C4: a signDocument call that obtained the unwrapped private key has
\* overwritten that buffer with zeros when it returns, on every exit path.
C4_KeyZeroedAtReturn ==
    \A c \in CallIds :
        (SignDone(c) /\ "unwrapped" \in calls[c].steps) => calls[c].keyBuf = 0

\* witness of C4: a call that unwrapped the key and failed in signHash has
\* returned through the catch block with the buffer zeroed
C4_Witness ==
    \E c \in CallIds :
        /\ SignDone(c) /\ "unwrapped" \in calls[c].steps
        /\ calls[c].signatureHex = <<>>
        /\ calls[c].res.status = 500
        /\ calls[c].keyBuf = 0

WrongPassword(c) ==
    /\ calls[c].op = "sign"
    /\ users[calls[c].userId].registered
    /\ users[calls[c].userId].passwordHash # [bcrypt |-> calls[c].password]

InvalidCredentialReturned(c) ==
    /\ calls[c].res.status = 401
    /\ Outcome(calls[c].res) = "InvalidCredential"
    /\ calls[c].signatureHex = <<>>
    /\ calls[c].signedPdfBytes = NoBytes
    /\ calls[c].res.bytes = NoBytes
    /\ registry = calls[c].registry0

\* C5 as stated: a signDocument call with a password other than the one the
\* identity registered with ends in InvalidCredential, with no signature, no
\* signed bytes and the registry unchanged.
C5_WrongPasswordRejected ==
    \A c \in CallIds :
        (SignDone(c) /\ WrongPassword(c)) => InvalidCredentialReturned(c)

\* C5 amended: the same, for a call that uploads a parsable PDF file and
\* gives a non-empty password.
C5_WrongPasswordRejectedOnValidUpload ==
    \A c \in CallIds :
        (SignDone(c) /\ WrongPassword(c)
            /\ calls[c].file # NoBytes /\ IsPdf(calls[c].file)
            /\ calls[c].mimetype = "application/pdf"
            /\ calls[c].password # NoPassword)
        => InvalidCredentialReturned(c)

\* witness of C5: a call with a wrong non-empty password on a parsable PDF
\* has returned 401
C5_Witness ==
    \E c \in CallIds :
        /\ SignDone(c) /\ WrongPassword(c)
        /\ IsPdf(calls[c].file) /\ calls[c].password # NoPassword
        /\ calls[c].res.status = 401

\* C6: a verification that ends in Valid, Tampered or Unregistered has
\* stripped the envelope, digested the stripped bytes and got true from
\* verifySignature; a signature check that returns false ends in Invalid.
C6_ClassifiedAfterSignatureCheck ==
    \A c \in CallIds :
        VerifyDone(c) =>
            /\ Outcome(calls[c].res) \in {"Valid", "Tampered", "Unregistered"}
               => /\ {"stripped", "digested", "checked"} \subseteq calls[c].steps
                  /\ calls[c].isValid
            /\ ("checked" \in calls[c].steps /\ ~calls[c].isValid)
               => Outcome(calls[c].res) = "Invalid"

\* the uploaded bytes carry a signature that verifies over the stripped bytes
CryptographicallyValid(bytes) ==
    /\ bytes # NoBytes /\ IsPdf(bytes)
    /\ LET e == ExtractAndStripSignature(bytes)
       IN  /\ e.signed
           /\ VerifySignature(e.signature, HashPdfBuffer(e.strippedPdfBuffer),
                              e.publicKey)

HasRegistryEntry(bytes) ==
    \E e \in registry : e.signature = ExtractAndStripSignature(bytes).signature

\* C7: a document with a cryptographically valid signature / public-key pair
\* whose signature has no registry entry is classified Unregistered.
C7_ValidButUnregistered ==
    \A c \in CallIds :
        (VerifyDone(c) /\ calls[c].mimetype = "application/pdf"
            /\ CryptographicallyValid(calls[c].file)
            /\ ~HasRegistryEntry(calls[c].file))
        => Outcome(calls[c].res) = "Unregistered"

\* the public key stored for the signer of the entry with this signature
RecordedKeys(bytes) ==
    {users[e.signer].publicKey :
        e \in {r \in registry :
                  r.signature = ExtractAndStripSignature(bytes).signature}}

C9_NotSignedIsSuccess ==
    \A c \in CallIds :
        (VerifyDone(c) /\ calls[c].mimetype = "application/pdf"
            /\ calls[c].file # NoBytes /\ IsPdf(calls[c].file)
            /\ ~ExtractAndStripSignature(calls[c].file).signed)
        => /\ Outcome(calls[c].res) = "NotSigned"
           /\ calls[c].res.status = 200
           /\ calls[c].res.success
           /\ ~calls[c].res.verified

\* C10: when the registry insert at the end of signing fails, signDocument
\* still returns the signed bytes with the signature and the public key.
C10_InsertFailureStillReturns ==
    \A c \in CallIds :
        (SignDone(c) /\ "insert-failed" \in calls[c].steps)
        => /\ calls[c].res.status = 200
           /\ calls[c].res.bytes = calls[c].signedPdfBytes
           /\ calls[c].res.signature = calls[c].signatureHex
           /\ calls[c].res.signerPublicKey = users[calls[c].userId].publicKey

\* C11: a signing call whose signature is already in the registry ends in a
\* recoverable Conflict response, not in the unclassified internal error.
C11_DuplicateIsConflict ==
    \A c \in CallIds :
        (SignDone(c) /\ "duplicate-key" \in calls[c].steps)
        => /\ calls[c].res.status = 409
           /\ Outcome(calls[c].res) # "Error"

\* C12: after any interleaving of concurrent and sequential signing calls,
\* no two registry entries carry the same signature value.
C12_UniqueSignatures ==
    \A e1 \in registry, e2 \in registry :
        e1.signature = e2.signature => e1 = e2

\* witness of C12: two calls that started from the same registry produced
\* the same signature; one inserted its entry, the other was rejected by the
\* unique index
C12_Witness ==
    \E c1 \in DOMAIN calls, c2 \in DOMAIN calls :
        /\ c1 # c2
        /\ calls[c1].op = "sign" /\ calls[c2].op = "sign"
        /\ calls[c1].registry0 = calls[c2].registry0
        /\ calls[c1].signatureHex # <<>>
        /\ calls[c1].signatureHex = calls[c2].signatureHex
        /\ calls[c1].pc \in {"send", "done"}
        /\ \E e \in registry \ calls[c1].registry0 :
              e.signature = calls[c1].signatureHex
        /\ "duplicate-key" \in calls[c2].steps

VerificationOutcomes == {"Valid", "NotSigned", "Unregistered", "Tampered", "Invalid"}

\* C13: a verify request that carries no authentication token is processed
\* by the verification handler and is answered with a classified
\* verification outcome.
C13_VerifyWithoutToken ==
    \A c \in DOMAIN calls :
        (calls[c].pc = "done" /\ calls[c].route = "verify"
            /\ calls[c].authHeader = "none"
            /\ calls[c].file # NoBytes /\ IsPdf(calls[c].file))
        => /\ calls[c].op = "verify"
           /\ Outcome(calls[c].res) \in VerificationOutcomes

WellFormedInput(signature, publicKey) == IsSigHex(signature) /\ IsKeyHex(publicKey)

\* C15: verifySignature never throws; it returns a boolean for every input,
\* and false whenever the signature or the public key is malformed or of the
\* wrong length.
C15_VerifySignatureTotal ==
    (unit.fn = "verifySignature" /\ unit.stage = "returned")
    => /\ ~unit.completion.thrown
       /\ unit.completion.value \in BOOLEAN
       /\ ~WellFormedInput(unit.signature, unit.publicKey)
          => unit.completion.value = FALSE

HoldsRawKey(str) ==
    \E i \in 1..Len(str) :
        DOMAIN str[i] = {"key"} /\ str[i].key \in PrivateKeys

BytesHoldRawKey(bytes) ==
    /\ bytes.form \in {"raw", "lib"}
    /\ \E field \in {bytes.title, bytes.subject, bytes.keywords,
                     bytes.producer, bytes.creator} :
          field.has /\ HoldsRawKey(field.s)

\* the identity record has the fields of IUser and its private key is a
\* ciphertext
StoredWrapped(user) ==
    /\ DOMAIN user = {"registered", "email", "passwordHash", "publicKey",
                      "encryptedPrivateKey", "iv", "salt"}
    /\ ~HoldsRawKey(user.publicKey)
    /\ DOMAIN user.encryptedPrivateKey = {"pt", "dek", "iv"}

\* C17: after any sequence of signup, login, sign and verify operations, no
\* identity record, registry entry, HTTP response or log line contains a raw
\* private key; the identity store holds the private key in wrapped form only.
C17_NoRawKeyAtRestOrLogged ==
    /\ \A u \in Users : users[u].registered => StoredWrapped(users[u])
    /\ \A e \in registry :
          /\ DOMAIN e = {"id", "hash", "signature", "signer", "fileName"}
          /\ ~HoldsRawKey(e.signature)
    /\ \A c \in DOMAIN calls :
          /\ ~HoldsRawKey(calls[c].res.signerPublicKey)
          /\ ~HoldsRawKey(calls[c].res.signature)
          /\ ~BytesHoldRawKey(calls[c].res.bytes)
          /\ \A line \in calls[c].logged : ~HoldsRawKey(line)

\* witness of C17: with an identity stored and a signature registered, a
\* signing call has logged its signature and answered with the signed bytes
C17_Witness ==
    \E c \in DOMAIN calls :
        /\ SignDone(c) /\ calls[c].res.status = 200
        /\ calls[c].res.bytes # NoBytes
        /\ \E line \in calls[c].logged : line[1] = Chr("[SIGN] Signature: ")
        /\ registry # {}
        /\ users[calls[c].userId].registered

\* C18: every value that was given a raw private key (the key generated at
\* registration, the key passed to encryptPrivateKey, the buffers that
\* decryptPrivateKey produced) holds zeros when the operation that created
\* it has returned.
C18_EveryKeyValueZeroed ==
    \A c \in DOMAIN calls :
        calls[c].pc = "done"
        => /\ calls[c].keyBuf \in {-1, 0}
           /\ \A name \in DOMAIN calls[c].buffers :
                 calls[c].buffers[name].holds = 0

\* bytes that pdfDoc.save() wrote from a parsed document
Reserialized(bytes) == bytes.form = "lib" /\ bytes = Save(Load(bytes))

SignupStep ==
    \E c \in DOMAIN calls : calls[c].pc = "idle" /\ calls'[c].op = "signup"

\* the step is the registry insert of a signing call
RegisterStep ==
    \E c \in DOMAIN calls : calls[c].op = "sign" /\ calls[c].pc = "register"

\* C21: no sign, verify or login step changes any stored identity, whatever
\* its outcome (only signup writes the identity store), and no verify step
\* changes the registry (only the insert of a signing call does).
C21_IdentitiesAndRegistryUntouched ==
    [][/\ users' # users => SignupStep
       /\ registry' # registry => RegisterStep]_vars

\* witness of C21: with an identity stored and a signature registered, a
\* verification or a login has been answered and the registry is as it was
C21_Witness ==
    \E c \in DOMAIN calls :
        /\ calls[c].pc = "done"
        /\ calls[c].op \in {"verify", "login"}
        /\ calls[c].res.status = 200
        /\ registry # {}
        /\ registry = calls[c].registry0
        /\ \E u \in Users : users[u].registered

\* C22: extractAndStripSignature removes from each carrier field exactly the
\* token that injectSignature appended and leaves the rest of the field as
\* it was, and the signature and public key it returns are the hex values
\* that were embedded.
C22_StripRemovesEmbeddedToken ==
    codec.stage = "extracted"
    => /\ codec.extracted.signed
       /\ codec.extracted.signature = codec.s
       /\ codec.extracted.publicKey = codec.k
       /\ OrElse(Load(codec.extracted.strippedPdfBuffer).producer, <<>>)
             = OrElse(codec.c.producer, <<>>)
       /\ OrElse(Load(codec.extracted.strippedPdfBuffer).creator, <<>>)
             = OrElse(codec.c.creator, <<>>)

\* the call passed input validation and reached the parsing of the document
ReachedParsing(c) ==
    /\ calls[c].file # NoBytes
    /\ calls[c].mimetype = "application/pdf"
    /\ calls[c].op = "sign"
       => calls[c].password # NoPassword /\ users[calls[c].userId].registered

\* C23: an unparsable document given to sign or to verify is rejected with
\* the distinct MalformedContainer classification, a recoverable rejection
\* of the input, and not with the generic internal-error outcome.
C23_MalformedIsClassified ==
    \A c \in DOMAIN calls :
        (calls[c].pc = "done" /\ calls[c].op \in {"sign", "verify"}
            /\ ReachedParsing(c) /\ ~IsPdf(calls[c].file))
        => /\ calls[c].res.status \in 400..499
           /\ Outcome(calls[c].res) # "Error"


\* C24: after a signing attempt is rejected with InvalidCredential the caller
\* still holds its token and user, so it can retry without logging in again.
C24_StillAuthenticatedAfterInvalidCredential ==
    [][\A c \in CallIds :
          (SignDone(c) /\ Outcome(calls[c].res) = "InvalidCredential"
              /\ calls'[c].pc = "idle")
          => sessions'[calls[c].userId]]_vars


\* the signing call c is made by a signed-up identity with the password it
\* signed up with
SignsWithSignupPassword(c) ==
    /\ calls[c].op = "sign"
    /\ calls[c].userId \in Users
    /\ users[calls[c].userId].registered
    /\ users[calls[c].userId].passwordHash = [bcrypt |-> calls[c].password]

\* C25: for every identity created by signup with password p, every later
\* signing call with p unwraps the private key (it never ends in
\* InvalidCredential) and the unwrapped key is the one of the stored public key.
C25_SignupPasswordAlwaysUnwraps ==
    \A c \in DOMAIN calls :
        SignsWithSignupPassword(c)
        => /\ calls[c].pc = "done" => Outcome(calls[c].res) # "InvalidCredential"
           /\ calls[c].pc = "sign"
                  => KeyToHex(GetPublicKey(calls[c].keyBuf))
                         = users[calls[c].userId].publicKey

\* a signing call with the signup password has just unwrapped the key
C25_Witness ==
    \E c \in DOMAIN calls :
        /\ SignsWithSignupPassword(c)
        /\ calls[c].pc = "sign"
        /\ calls[c].keyBuf = RandomKey(calls[c].userId)


\* what a signing call answers when it runs alone on its inputs, from the
\* registry it started with and without a fault of the database
SignAloneOutcome(frame) ==
    LET user == users[frame.userId]
        normalizedPdf == NormalizePdf(frame.file)
        key == DecryptPrivateKey(user.encryptedPrivateKey, user.iv,
                   DeriveKeyFromPassword(frame.password, user.salt))
        signatureHex == SignHash(HashPdfBuffer(normalizedPdf), key)
    IN  IF frame.file = NoBytes \/ ~IsPdf(frame.file) THEN "Error"
        ELSE IF DecryptThrows(user.encryptedPrivateKey, user.iv,
                    DeriveKeyFromPassword(frame.password, user.salt))
        THEN "InvalidCredential"
        ELSE IF \E e \in frame.registry0 : e.signature = signatureHex
        THEN "Error"
        ELSE "Signed"

\* the signed bytes a signing call returns when it runs alone
SignAloneBytes(frame) ==
    LET normalizedPdf == NormalizePdf(frame.file)
    IN  InjectSignature(normalizedPdf,
            SignHash(HashPdfBuffer(normalizedPdf), RandomKey(frame.userId)),
            users[frame.userId].publicKey)

\* what a registry-backed verification answers when it runs alone on its
\* input, from the registry it started with
VerifyAloneOutcome(frame) ==
    IF frame.file = NoBytes \/ ~IsPdf(frame.file) THEN "Error"
    ELSE LET extractedData == ExtractAndStripSignature(frame.file)
             found == {e \in frame.registry0 :
                          e.signature = extractedData.signature}
         IN  IF ~extractedData.signed THEN "NotSigned"
             ELSE IF found = {} THEN "Unregistered"
             ELSE IF \E e \in found :
                        users[e.signer].publicKey = extractedData.publicKey
             THEN "Valid"
             ELSE "Tampered"

\* another call inserted, while c was in flight, the registry entry that c's
\* own inputs lead to: the two calls worked on the same input
SameInputInFlight(c) ==
    \E e \in registry \ calls[c].registry0 :
        IF calls[c].op = "sign"
        THEN /\ "duplicate-key" \in calls[c].steps
             /\ e.signer = calls[c].userId /\ e.hash = calls[c].pdfHash
        ELSE /\ calls[c].extractedData.signed
             /\ e.signature = calls[c].extractedData.signature

\* C26: interleaved sign and verify calls on independent inputs each answer
\* with the outcome and the bytes of the same call run alone, and the key
\* buffer a call is about to sign with is never zeroed by another call.
C26_InterleavingIsInvisible ==
    \A c \in DOMAIN calls :
        /\ (SignDone(c) /\ ~SameInputInFlight(c))
           => /\ \/ Outcome(calls[c].res) = SignAloneOutcome(calls[c])
                 \/ /\ Outcome(calls[c].res) = "Error"
                    /\ "insert-failed" \in calls[c].steps
                    /\ "duplicate-key" \notin calls[c].steps
              /\ calls[c].res.status = 200
                 => calls[c].res.bytes = SignAloneBytes(calls[c])
        /\ (VerifyDone(c) /\ ~SameInputInFlight(c))
           => Outcome(calls[c].res) = VerifyAloneOutcome(calls[c])
        /\ (calls[c].op = "sign" /\ calls[c].pc \in {"sign", "wipe"})
           => calls[c].keyBuf = RandomKey(calls[c].userId)

\* a signing call has returned signed bytes and a verification has answered
\* Valid, both having run while the other request slot was busy: the registry
\* grew between the start of each and now
C26_Witness ==
    \E c \in DOMAIN calls, d \in DOMAIN calls :
        /\ c # d
        /\ SignDone(c) /\ calls[c].res.status = 200
        /\ VerifyDone(d) /\ Outcome(calls[d].res) = "Valid"
        /\ calls[d].registry0 # registry
        /\ calls[c].registry0 # calls[d].registry0


\* C27: embed changes only the two carrier fields: title, subject, keywords,
\* modification timestamp and content of its output equal those of the
\* canonical input, also when the input has no title, subject or keywords.
C27_EmbedTouchesCarriersOnly ==
    codec.stage = "embedded"
    => LET out == Load(codec.signedBytes)
       IN  /\ out.title = codec.c.title
           /\ out.subject = codec.c.subject
           /\ out.keywords = codec.c.keywords
           /\ out.modDate = codec.c.modDate
           /\ out.content = codec.c.content


\* C28: for every parsable document the presence check isSignedDocument
\* answers true exactly when extractAndStripSignature returns an envelope.
C28_PresenceCheckAgreesWithExtract ==
    codec.stage = "probed"
    => (codec.hasEnvelope <=> codec.extracted.signed)


\* the document carries, in its Creator entry, the key token of an identity
\* other than u
CarriesEnvelopeOfAnother(bytes, u) ==
    /\ IsPdf(bytes) /\ bytes # NoBytes
    /\ LET creator == OrElse(Load(bytes).creator, <<>>)
       IN  \E i \in 1..Len(creator) :
               /\ TokenAt(creator, OWNER_KEY, i)
               /\ <<creator[i + 3]>> # users[u].publicKey

\* C29: when identity B signs a document that already carries the envelope of
\* identity A, verifying B's output extracts the signature and the public key
\* that B embedded and attributes the document to B.
C29_LatestSignerIsAttributed ==
    \A c \in DOMAIN calls :
        (/\ VerifyDone(c)
         /\ calls[c].mimetype = "application/pdf"
         /\ calls[c].variant = "registry"
         /\ calls[c].origin = "signed"
         /\ CarriesEnvelopeOfAnother(calls[c].file, calls[c].by))
        => /\ calls[c].extractedData.signed
           /\ calls[c].extractedData.publicKey = users[calls[c].by].publicKey
           /\ calls[c].extractedData.signature[1].sig.k = RandomKey(calls[c].by)
           /\ calls[c].res.signerPublicKey = users[calls[c].by].publicKey


\* C30: in every reachable state each registry entry's signature verifies
\* against the entry's recorded digest under the public key of the entry's
\* signer, and the entry's signer is the identity that made the signing call
\* which created the entry.
C30_RegistryEntriesAreGenuine ==
    /\ \A e \in registry :
          /\ e.signer \in Users /\ users[e.signer].registered
          /\ VerifySignature(e.signature, e.hash, users[e.signer].publicKey)
    /\ \A c \in DOMAIN calls :
          (calls[c].op = "sign" /\ RegisteredLogLine \in calls[c].logged)
          => \E e \in registry :
                /\ e.signature = calls[c].signatureHex
                /\ e.hash = calls[c].pdfHash
                /\ e.signer = calls[c].userId

\* two identities each have an entry in the registry, and the call that
\* inserted the latest one is still in flight
C30_Witness ==
    /\ \E e1 \in registry, e2 \in registry : e1.signer # e2.signer
    /\ \E c \in DOMAIN calls :
          /\ calls[c].op = "sign" /\ calls[c].pc = "send"
          /\ \E e \in registry \ calls[c].registry0 :
                e.signature = calls[c].signatureHex

====
